---- MODULE Spec2Model ----
(***************************************************************************)
(* Model of the heap allocator of mem_manage.c (LP64 build).               *)
(*                                                                         *)
(* Memory is a map from the byte address of an 8-byte cell to the value    *)
(* stored there.  A Block header occupies three cells: size at b,          *)
(* is_free at b + 8 (1 = true, 0 = false) and next at b + 16.  A payload   *)
(* cell holds 0 when all its bytes are zero and a non-zero pattern         *)
(* otherwise.  The free-block heap is the array heap[0 .. heap_count-1],   *)
(* kept as a sequence; C index i is element i + 1.  live and op are the     *)
(* client's view (the pointers it holds, the call it made last); pc is the *)
(* position of a client that follows a fixed program.  brk is the program  *)
(* break and rlimit the address beyond which sbrk refuses to move it.      *)
(***************************************************************************)
EXTENDS Integers, Sequences, FiniteSets, TLC

VARIABLES heap_start, heap_size, heap, brk, rlimit, mem, live, op, pc

vars == <<heap_start, heap_size, heap, brk, rlimit, mem, live, op, pc>>

----------------------------------------------------------------------------
(* Program constants *)

NULL == 0

MAX_HEAP_SIZE == 1024

SizeofBlock == 24

Cell == 8

MIN_BLOCK_SIZE == SizeofBlock

ALIGN(size) == ((size + 7) \div 8) * 8

\* Pointer width of the model; the failure value of sbrk is AddrSpace - 1.
AddrSpace == 65536

SbrkFailed == AddrSpace - 1

----------------------------------------------------------------------------
(* Bounds of the model *)

(* Initial program break. *)
SbrkBase == 4096

(* Bytes the environment grants to sbrk before it fails. *)
MemLimit == 120

(* Arguments the client passes. *)
InitSizes == {16, 40, 105}

AllocSizes == {0, 1, 16, 17}

WriteInitSizes == {56}

(* A non-null pointer that lies in no arena. *)
WildPtr == 8

(* The program of the client of SpecDeep: the arena it asks for, the sizes *)
(* it allocates in order, the positions it frees afterwards, and the sizes *)
(* and number of its later allocations.                                    *)
DeepArena == 552

Layout == <<8, 8, 32, 8, 16, 8, 32, 16, 24, 8, 40, 8, 32>>

Freeable == {1, 3, 5, 7, 8, 9, 11, 13}

ChurnSizes == {8, 16}

MaxChurnAllocs == 2

----------------------------------------------------------------------------
(* Block header fields *)

SizeOf(m, b) == m[b]

IsFree(m, b) == m[b + 8] = 1

heap_count == Len(heap)

Range(h) == {h[k] : k \in 1..Len(h)}

----------------------------------------------------------------------------
(* The min-heap of free blocks *)

swap(h, i, j) == [h EXCEPT ![i + 1] = h[j + 1], ![j + 1] = h[i + 1]]

RECURSIVE heapify_up(_, _, _)
heapify_up(h, m, index) ==
    IF index > 0
    THEN LET parent == (index - 1) \div 2
         IN  IF SizeOf(m, h[index + 1]) < SizeOf(m, h[parent + 1])
             THEN heapify_up(swap(h, index, parent), m, parent)
             ELSE h
    ELSE h

RECURSIVE heapify_down(_, _, _)
heapify_down(h, m, index) ==
    LET n     == Len(h)
        left  == 2 * index + 1
        right == 2 * index + 2
        s1    == IF left < n /\ SizeOf(m, h[left + 1]) < SizeOf(m, h[index + 1])
                 THEN left ELSE index
        smallest == IF right < n /\ SizeOf(m, h[right + 1]) < SizeOf(m, h[s1 + 1])
                    THEN right ELSE s1
    IN  IF smallest # index
        THEN heapify_down(swap(h, index, smallest), m, smallest)
        ELSE h

heap_insert(h, m, block) ==
    IF Len(h) >= MAX_HEAP_SIZE
    THEN h
    ELSE heapify_up(Append(h, block), m, Len(h))

(* heap[i] = heap[--heap_count] *)
MoveLastTo(h, i) ==
    LET n == Len(h) - 1
    IN  [k \in 1..n |-> IF k = i + 1 THEN h[n + 1] ELSE h[k]]

heap_extract_min(h, m) ==
    IF Len(h) = 0
    THEN [block |-> NULL, heap |-> h]
    ELSE [block |-> h[1], heap |-> heapify_down(MoveLastTo(h, 0), m, 0)]

----------------------------------------------------------------------------
(* libc *)

memset(m, p, v, n) ==
    [a \in DOMAIN m |->
        IF \E k \in 0..((n \div Cell) - 1) : a = p + Cell * k THEN v ELSE m[a]]

memcpy(m, dst, src, n) ==
    [a \in DOMAIN m |->
        IF a >= dst /\ a < dst + n /\ (a - dst) % Cell = 0
        THEN m[src + (a - dst)]
        ELSE m[a]]

\* sbrk(n): the old break, or the failure value when the limit is exceeded.
sbrk(n) ==
    IF brk + n > rlimit THEN SbrkFailed ELSE brk

----------------------------------------------------------------------------
(* The allocator's functions, as functions of the state they read *)

(* mm_malloc without the `size == 0` test *)
mm_malloc_no_zero_test(h, m, size) ==
    LET sz    == ALIGN(size)
        ex    == heap_extract_min(h, m)
        block == ex.block
    IN  IF block = NULL \/ SizeOf(m, block) < sz
        THEN [ret |-> NULL, heap |-> ex.heap, mem |-> m]
        ELSE LET split == SizeOf(m, block) >= sz + SizeofBlock + ALIGN(1)
                 new_block == block + SizeofBlock + sz
                 m1 == IF split
                       THEN [m EXCEPT ![new_block] = SizeOf(m, block) - sz - SizeofBlock,
                                      ![new_block + 8] = 1]
                       ELSE m
                 h1 == IF split THEN heap_insert(ex.heap, m1, new_block) ELSE ex.heap
                 m2 == IF split THEN [m1 EXCEPT ![block] = sz] ELSE m1
                 m3 == [m2 EXCEPT ![block + 8] = 0]
             IN  [ret  |-> block + SizeofBlock,
                  heap |-> h1,
                  mem  |-> memset(m3, block + SizeofBlock, 0, sz)]

(* mm_malloc with `block->size <= size` in place of `<` in the fit test *)
mm_malloc_strict_fit(h, m, size) ==
    IF size = 0
    THEN [ret |-> NULL, heap |-> h, mem |-> m]
    ELSE LET sz    == ALIGN(size)
             ex    == heap_extract_min(h, m)
             block == ex.block
         IN  IF block = NULL \/ SizeOf(m, block) <= sz
             THEN [ret |-> NULL, heap |-> ex.heap, mem |-> m]
             ELSE LET split == SizeOf(m, block) >= sz + SizeofBlock + ALIGN(1)
                      new_block == block + SizeofBlock + sz
                      m1 == IF split
                            THEN [m EXCEPT ![new_block] = SizeOf(m, block) - sz - SizeofBlock,
                                           ![new_block + 8] = 1]
                            ELSE m
                      h1 == IF split THEN heap_insert(ex.heap, m1, new_block) ELSE ex.heap
                      m2 == IF split THEN [m1 EXCEPT ![block] = sz] ELSE m1
                      m3 == [m2 EXCEPT ![block + 8] = 0]
                  IN  [ret  |-> block + SizeofBlock,
                       heap |-> h1,
                       mem  |-> memset(m3, block + SizeofBlock, 0, sz)]

(* mm_malloc that splits as soon as a header fits in the remainder:       *)
(* `size + sizeof(Block)` in place of `size + sizeof(Block) + ALIGN(1)`    *)
mm_malloc_split_early(h, m, size) ==
    IF size = 0
    THEN [ret |-> NULL, heap |-> h, mem |-> m]
    ELSE LET sz    == ALIGN(size)
             ex    == heap_extract_min(h, m)
             block == ex.block
         IN  IF block = NULL \/ SizeOf(m, block) < sz
             THEN [ret |-> NULL, heap |-> ex.heap, mem |-> m]
             ELSE LET split == SizeOf(m, block) >= sz + SizeofBlock
                      new_block == block + SizeofBlock + sz
                      m1 == IF split
                            THEN [m EXCEPT ![new_block] = SizeOf(m, block) - sz - SizeofBlock,
                                           ![new_block + 8] = 1]
                            ELSE m
                      h1 == IF split THEN heap_insert(ex.heap, m1, new_block) ELSE ex.heap
                      m2 == IF split THEN [m1 EXCEPT ![block] = sz] ELSE m1
                      m3 == [m2 EXCEPT ![block + 8] = 0]
                  IN  [ret  |-> block + SizeofBlock,
                       heap |-> h1,
                       mem  |-> memset(m3, block + SizeofBlock, 0, sz)]

mm_malloc(h, m, size) ==
    IF size = 0
    THEN [ret |-> NULL, heap |-> h, mem |-> m]
    ELSE LET sz    == ALIGN(size)
             ex    == heap_extract_min(h, m)
             block == ex.block
         IN  IF block = NULL \/ SizeOf(m, block) < sz
             THEN [ret |-> NULL, heap |-> ex.heap, mem |-> m]
             ELSE LET split == SizeOf(m, block) >= sz + SizeofBlock + ALIGN(1)
                      new_block == block + SizeofBlock + sz
                      m1 == IF split
                            THEN [m EXCEPT ![new_block] = SizeOf(m, block) - sz - SizeofBlock,
                                           ![new_block + 8] = 1]
                            ELSE m
                      h1 == IF split THEN heap_insert(ex.heap, m1, new_block) ELSE ex.heap
                      m2 == IF split THEN [m1 EXCEPT ![block] = sz] ELSE m1
                      m3 == [m2 EXCEPT ![block + 8] = 0]
                  IN  [ret  |-> block + SizeofBlock,
                       heap |-> h1,
                       mem  |-> memset(m3, block + SizeofBlock, 0, sz)]

(* The pointer test of mm_free with the lower bound taken at the first    *)
(* region obtained from sbrk instead of the current heap_start            *)
InvalidPtr_first_region(ptr) ==
    \/ ptr = NULL
    \/ ptr < SbrkBase
    \/ ptr >= (heap_start + heap_size) % AddrSpace

(* !ptr || ptr < heap_start || ptr >= heap_start + heap_size *)
InvalidPtr(ptr) ==
    \/ ptr = NULL
    \/ ptr < heap_start
    \/ ptr >= (heap_start + heap_size) % AddrSpace

(* The coalescing loop that enlarges current and removes no entry *)
RECURSIVE Coalesce_no_remove(_, _, _)
Coalesce_no_remove(h, m, i) ==
    IF i >= Len(h)
    THEN [heap |-> h, mem |-> m]
    ELSE LET current == h[i + 1]
             next    == current + SizeofBlock + SizeOf(m, current)
         IN  IF /\ IsFree(m, current)
                /\ next < (heap_start + heap_size) % AddrSpace
                /\ IsFree(m, next)
             THEN LET m1 == [m EXCEPT ![current] = @ + SizeofBlock + SizeOf(m, next)]
                  IN  Coalesce_no_remove(h, m1, 0)
             ELSE Coalesce_no_remove(h, m, i + 1)

RECURSIVE Coalesce(_, _, _)
Coalesce(h, m, i) ==
    IF i >= Len(h)
    THEN [heap |-> h, mem |-> m]
    ELSE LET current == h[i + 1]
             next    == current + SizeofBlock + SizeOf(m, current)
         IN  IF /\ IsFree(m, current)
                /\ next < (heap_start + heap_size) % AddrSpace
                /\ IsFree(m, next)
             THEN LET m1 == [m EXCEPT ![current] = @ + SizeofBlock + SizeOf(m, next)]
                  IN  Coalesce(heapify_down(MoveLastTo(h, i), m1, i), m1, 0)
             ELSE Coalesce(h, m, i + 1)

mm_free(h, m, ptr) ==
    IF InvalidPtr(ptr)
    THEN [heap |-> h, mem |-> m]
    ELSE LET block == ptr - SizeofBlock
             m1    == [m EXCEPT ![block + 8] = 1]
         IN  Coalesce(heap_insert(h, m1, block), m1, 0)

(* mm_realloc with `block->size > size` in place of `>=` *)
mm_realloc_strict(h, m, ptr, size) ==
    IF ptr = NULL
    THEN mm_malloc(h, m, size)
    ELSE IF size = 0
    THEN LET f == mm_free(h, m, ptr)
         IN  [ret |-> NULL, heap |-> f.heap, mem |-> f.mem]
    ELSE LET block == ptr - SizeofBlock
         IN  IF SizeOf(m, block) > size
             THEN [ret |-> ptr, heap |-> h, mem |-> m]
             ELSE LET a == mm_malloc(h, m, size)
                  IN  IF a.ret # NULL
                      THEN LET f == mm_free(a.heap,
                                            memcpy(a.mem, a.ret, ptr, SizeOf(m, block)),
                                            ptr)
                           IN  [ret |-> a.ret, heap |-> f.heap, mem |-> f.mem]
                      ELSE a

(* mm_realloc with the size == 0 test placed before the !ptr test *)
mm_realloc_zero_first(h, m, ptr, size) ==
    IF size = 0
    THEN LET f == mm_free(h, m, ptr)
         IN  [ret |-> NULL, heap |-> f.heap, mem |-> f.mem]
    ELSE IF ptr = NULL
    THEN [ret |-> NULL, heap |-> h, mem |-> m]
    ELSE LET block == ptr - SizeofBlock
         IN  IF SizeOf(m, block) >= size
             THEN [ret |-> ptr, heap |-> h, mem |-> m]
             ELSE LET a == mm_malloc(h, m, size)
                  IN  IF a.ret # NULL
                      THEN LET f == mm_free(a.heap,
                                            memcpy(a.mem, a.ret, ptr, SizeOf(m, block)),
                                            ptr)
                           IN  [ret |-> a.ret, heap |-> f.heap, mem |-> f.mem]
                      ELSE a

mm_realloc(h, m, ptr, size) ==
    IF ptr = NULL
    THEN mm_malloc(h, m, size)
    ELSE IF size = 0
    THEN LET f == mm_free(h, m, ptr)
         IN  [ret |-> NULL, heap |-> f.heap, mem |-> f.mem]
    ELSE LET block == ptr - SizeofBlock
         IN  IF SizeOf(m, block) >= size
             THEN [ret |-> ptr, heap |-> h, mem |-> m]
             ELSE LET a == mm_malloc(h, m, size)
                  IN  IF a.ret # NULL
                      THEN LET f == mm_free(a.heap,
                                            memcpy(a.mem, a.ret, ptr, SizeOf(m, block)),
                                            ptr)
                           IN  [ret |-> a.ret, heap |-> f.heap, mem |-> f.mem]
                      ELSE a

mm_metadata_size == SizeofBlock

----------------------------------------------------------------------------
(* The client's view: live maps every pointer handed out and not yet given *)
(* back to the number of bytes that were requested for it.                 *)

Drop(f, p) == [q \in DOMAIN f \ {p} |-> f[q]]

Put(f, p, n) == [q \in DOMAIN f \cup {p} |-> IF q = p THEN n ELSE f[q]]

NoLive == [q \in {} |-> 0]

Pattern(k) == 1 + (k % 2)

----------------------------------------------------------------------------
(* Operations *)

Init ==
    /\ heap_start = NULL
    /\ heap_size = 0
    /\ heap = <<>>
    /\ brk = SbrkBase
    /\ rlimit = SbrkBase + MemLimit
    /\ mem = [a \in {} |-> 0]
    /\ live = NoLive
    /\ op = [name |-> "start", ptr |-> NULL, size |-> 0, ret |-> NULL]
    /\ pc = 0

MmInit(memory_size) ==
    /\ op' = [name |-> "init", ptr |-> NULL, size |-> memory_size, ret |-> NULL]
    /\ live' = live
    /\ IF memory_size < MIN_BLOCK_SIZE
       THEN UNCHANGED <<heap_start, heap_size, heap, brk, rlimit, mem>>
       ELSE LET start == sbrk(memory_size)
            IN  IF start = SbrkFailed
                THEN /\ heap_start' = start
                     /\ UNCHANGED <<heap_size, heap, brk, rlimit, mem>>
                ELSE LET fresh == {start + Cell * k : k \in 0..(((memory_size + 7) \div Cell) - 1)}
                         m0 == [a \in DOMAIN mem \cup fresh |->
                                   IF a \in fresh THEN 0 ELSE mem[a]]
                         m1 == [m0 EXCEPT ![start] = memory_size - SizeofBlock,
                                          ![start + 8] = 1,
                                          ![start + 16] = NULL]
                     IN  /\ heap_start' = start
                         /\ heap_size' = memory_size
                         /\ brk' = brk + memory_size
                         /\ rlimit' = rlimit
                         /\ mem' = m1
                         /\ heap' = heap_insert(heap, m1, start)

MmMalloc(size) ==
    LET r == mm_malloc(heap, mem, size)
    IN  /\ heap' = r.heap
        /\ mem' = r.mem
        /\ live' = IF r.ret # NULL THEN Put(live, r.ret, size) ELSE live
        /\ op' = [name |-> "malloc", ptr |-> NULL, size |-> size, ret |-> r.ret]
        /\ UNCHANGED <<heap_start, heap_size, brk, rlimit>>

MmFree(ptr) ==
    LET r == mm_free(heap, mem, ptr)
    IN  /\ heap' = r.heap
        /\ mem' = r.mem
        /\ live' = Drop(live, ptr)
        /\ op' = [name |-> "free", ptr |-> ptr, size |-> 0, ret |-> NULL]
        /\ UNCHANGED <<heap_start, heap_size, brk, rlimit>>

MmRealloc(ptr, size) ==
    LET r == mm_realloc(heap, mem, ptr, size)
    IN  /\ heap' = r.heap
        /\ mem' = r.mem
        /\ live' = IF ptr = NULL
                   THEN (IF r.ret # NULL THEN Put(live, r.ret, size) ELSE live)
                   ELSE IF size = 0 THEN Drop(live, ptr)
                   ELSE IF r.ret = NULL THEN live
                   ELSE Put(Drop(live, ptr), r.ret, size)
        /\ op' = [name |-> "realloc", ptr |-> ptr, size |-> size, ret |-> r.ret]
        /\ UNCHANGED <<heap_start, heap_size, brk, rlimit>>

(* mm_cleanup without `heap_count = 0` *)
MmCleanup_keep_index ==
    /\ heap_start' = NULL
    /\ heap_size' = 0
    /\ heap' = heap
    /\ live' = NoLive
    /\ op' = [name |-> "cleanup", ptr |-> NULL, size |-> 0, ret |-> NULL]
    /\ UNCHANGED <<brk, rlimit, mem>>

MmCleanup ==
    /\ heap_start' = NULL
    /\ heap_size' = 0
    /\ heap' = <<>>
    /\ live' = NoLive
    /\ op' = [name |-> "cleanup", ptr |-> NULL, size |-> 0, ret |-> NULL]
    /\ UNCHANGED <<brk, rlimit, mem>>

(* memset(ptr, 0xAA, size) by the client over the bytes it asked for *)
ClientWrite(ptr) ==
    /\ mem' = [a \in DOMAIN mem |->
                 IF a >= ptr /\ a < ptr + live[ptr] /\ (a - ptr) % Cell = 0
                 THEN Pattern((a - ptr) \div Cell)
                 ELSE mem[a]]
    /\ op' = [name |-> "write", ptr |-> ptr, size |-> live[ptr], ret |-> NULL]
    /\ UNCHANGED <<heap_start, heap_size, heap, brk, rlimit, live>>

Next ==
    \/ \E n \in InitSizes : MmInit(n) /\ UNCHANGED pc
    \/ \E s \in AllocSizes : MmMalloc(s) /\ UNCHANGED pc
    \/ \E p \in DOMAIN live \cup {NULL, WildPtr} : MmFree(p) /\ UNCHANGED pc
    \/ \E p \in DOMAIN live \cup {NULL}, s \in AllocSizes : MmRealloc(p, s) /\ UNCHANGED pc
    \/ MmCleanup /\ UNCHANGED pc

Spec == Init /\ [][Next]_vars

(* The same client, which also writes into the memory it holds, over one   *)
(* arena size.                                                              *)
NextW ==
    \/ \E n \in WriteInitSizes : MmInit(n) /\ UNCHANGED pc
    \/ \E s \in AllocSizes : MmMalloc(s) /\ UNCHANGED pc
    \/ \E p \in DOMAIN live \cup {NULL, WildPtr} : MmFree(p) /\ UNCHANGED pc
    \/ \E p \in DOMAIN live \cup {NULL}, s \in AllocSizes : MmRealloc(p, s) /\ UNCHANGED pc
    \/ MmCleanup /\ UNCHANGED pc
    \/ \E p \in DOMAIN live : ClientWrite(p) /\ UNCHANGED pc

SpecW == Init /\ [][NextW]_vars

(* A client that initialises one arena, carves it into the blocks of       *)
(* Layout (as the tests do: a run of mm_malloc calls after mm_init), and   *)
(* then frees the blocks at the positions of Freeable in any order, with   *)
(* up to MaxChurnAllocs further allocations in between.  The blocks at the *)
(* other positions stay live and keep the freed ones apart.                *)
RECURSIVE LayoutPtr(_)
LayoutPtr(k) ==
    IF k = 1
    THEN SbrkBase + SizeofBlock
    ELSE LayoutPtr(k - 1) + Layout[k - 1] + SizeofBlock

FreeablePtrs == {LayoutPtr(k) : k \in Freeable}

Built == Len(Layout) + 1

DeepInit ==
    /\ pc = 0
    /\ MmInit(DeepArena)
    /\ pc' = 1

DeepBuild ==
    /\ pc >= 1 /\ pc < Built
    /\ MmMalloc(Layout[pc])
    /\ pc' = pc + 1

DeepFree ==
    /\ pc >= Built
    /\ \E p \in DOMAIN live \cap FreeablePtrs : MmFree(p)
    /\ pc' = pc

DeepMalloc ==
    /\ pc >= Built /\ pc < Built + MaxChurnAllocs
    /\ \E s \in ChurnSizes : MmMalloc(s)
    /\ pc' = pc + 1

NextDeep ==
    \/ DeepInit
    \/ DeepBuild
    \/ DeepFree
    \/ DeepMalloc

InitDeep ==
    /\ heap_start = NULL
    /\ heap_size = 0
    /\ heap = <<>>
    /\ brk = SbrkBase
    /\ rlimit = SbrkBase + DeepArena
    /\ mem = [a \in {} |-> 0]
    /\ live = NoLive
    /\ op = [name |-> "start", ptr |-> NULL, size |-> 0, ret |-> NULL]
    /\ pc = 0

SpecDeep == InitDeep /\ [][NextDeep]_vars

----------------------------------------------------------------------------
(* mm_free with its coalescing loop taken one iteration at a time.  pc = 0 *)
(* between calls; inside the loop pc = i + 1 for the loop variable i.      *)

(* mm_free up to the entry of the loop: pointer test, flag, heap_insert *)
FreeBegin(ptr) ==
    /\ pc = 0
    /\ op' = [name |-> "free", ptr |-> ptr, size |-> 0, ret |-> NULL]
    /\ live' = Drop(live, ptr)
    /\ IF InvalidPtr(ptr)
       THEN UNCHANGED <<heap, mem, pc>>
       ELSE LET block == ptr - SizeofBlock
                m1    == [mem EXCEPT ![block + 8] = 1]
            IN  /\ mem' = m1
                /\ heap' = heap_insert(heap, m1, block)
                /\ pc' = 1
    /\ UNCHANGED <<heap_start, heap_size, brk, rlimit>>

(* The loop without `i = -1`: after a merge the scan goes on at i + 1 *)
CoalesceStep_no_restart ==
    /\ pc >= 1
    /\ LET i == pc - 1
       IN  IF i >= Len(heap)
           THEN /\ pc' = 0
                /\ UNCHANGED <<heap, mem>>
           ELSE LET current == heap[i + 1]
                    next    == current + SizeofBlock + SizeOf(mem, current)
                IN  IF /\ IsFree(mem, current)
                       /\ next < (heap_start + heap_size) % AddrSpace
                       /\ IsFree(mem, next)
                    THEN LET m1 == [mem EXCEPT ![current] = @ + SizeofBlock + SizeOf(mem, next)]
                         IN  /\ mem' = m1
                             /\ heap' = heapify_down(MoveLastTo(heap, i), m1, i)
                             /\ pc' = pc + 1
                    ELSE /\ pc' = pc + 1
                         /\ UNCHANGED <<heap, mem>>
    /\ UNCHANGED <<heap_start, heap_size, brk, rlimit, live, op>>

(* The loop test `i < heap_count` and one iteration of the body *)
CoalesceStep ==
    /\ pc >= 1
    /\ LET i == pc - 1
       IN  IF i >= Len(heap)
           THEN /\ pc' = 0
                /\ UNCHANGED <<heap, mem>>
           ELSE LET current == heap[i + 1]
                    next    == current + SizeofBlock + SizeOf(mem, current)
                IN  IF /\ IsFree(mem, current)
                       /\ next < (heap_start + heap_size) % AddrSpace
                       /\ IsFree(mem, next)
                    THEN LET m1 == [mem EXCEPT ![current] = @ + SizeofBlock + SizeOf(mem, next)]
                         IN  /\ mem' = m1
                             /\ heap' = heapify_down(MoveLastTo(heap, i), m1, i)
                             /\ pc' = 1
                    ELSE /\ pc' = pc + 1
                         /\ UNCHANGED <<heap, mem>>
    /\ UNCHANGED <<heap_start, heap_size, brk, rlimit, live, op>>

NextFree ==
    \/ pc = 0 /\ \E n \in InitSizes : MmInit(n) /\ UNCHANGED pc
    \/ pc = 0 /\ \E s \in AllocSizes : MmMalloc(s) /\ UNCHANGED pc
    \/ pc = 0 /\ MmCleanup /\ UNCHANGED pc
    \/ \E p \in DOMAIN live \cup {NULL, WildPtr} : FreeBegin(p)
    \/ CoalesceStep

(* The call of mm_free runs on once entered: nothing else is scheduled.    *)
SpecFree == Init /\ [][NextFree]_vars /\ WF_vars(CoalesceStep)

----------------------------------------------------------------------------
(* Vocabulary of the properties *)

ArenaEnd == (heap_start + heap_size) % AddrSpace

Initialized == heap_start # NULL /\ heap_start # SbrkFailed

InArena(a) == Initialized /\ a >= heap_start /\ a < heap_start + heap_size

Hdr(p) == p - SizeofBlock

RightOf(m, b) == b + SizeofBlock + SizeOf(m, b)

(* The headers met by walking from a with next = header + headerSize + payloadSize *)
RECURSIVE WalkFrom(_, _, _)
WalkFrom(m, a, end) ==
    IF a >= end \/ a \notin DOMAIN m
    THEN {}
    ELSE {a} \cup WalkFrom(m, RightOf(m, a), end)

(* The address at which that walk stops *)
RECURSIVE WalkStop(_, _, _)
WalkStop(m, a, end) ==
    IF a >= end \/ a \notin DOMAIN m
    THEN a
    ELSE WalkStop(m, RightOf(m, a), end)

Blocks == IF Initialized THEN WalkFrom(mem, heap_start, ArenaEnd) ELSE {}

Min(a, b) == IF a < b THEN a ELSE b

Max(a, b) == IF a < b THEN b ELSE a

----------------------------------------------------------------------------
(* C1 *)

(* In the state between the two frees: the previous call freed o, the call *)
(* about to happen frees the live pointer q, their blocks x (left) and y   *)
(* (right) are adjacent, o's block sits in the index as a free block, and  *)
(* no free block touches the pair.                                         *)
C1Between(o, q) ==
    LET x == Hdr(Min(o, q))
        y == Hdr(Max(o, q))
    IN  /\ op.name = "free" /\ op.ptr = o
        /\ o # q /\ q \in DOMAIN live
        /\ InArena(o) /\ InArena(q)
        /\ IsFree(mem, Hdr(o)) /\ Hdr(o) \in Range(heap)
        /\ RightOf(mem, x) = y
        /\ \A w \in Blocks : RightOf(mem, w) = x => ~IsFree(mem, w)
        /\ RightOf(mem, y) < ArenaEnd => ~IsFree(mem, RightOf(mem, y))

(* C1: coalescing round-trip.  When two address-adjacent live blocks p1    *)
(* (payload a) and p2 (payload b) are freed one right after the other, in  *)
(* either order, the index then holds the block at p1's header with        *)
(* payloadSize a + b + headerSize, no longer holds p2's block, and a       *)
(* following alloc(a + b) returns a non-null pointer.                      *)
C1_CoalesceRoundTrip ==
    [][\A o \in DOMAIN mem, q \in DOMAIN live :
          (C1Between(o, q) /\ op'.name = "free" /\ op'.ptr = q) =>
             LET x == Hdr(Min(o, q))
                 y == Hdr(Max(o, q))
                 a == SizeOf(mem, x)
                 b == SizeOf(mem, y)
             IN  /\ x \in Range(heap')
                 /\ y \notin Range(heap')
                 /\ SizeOf(mem', x) = a + b + SizeofBlock
                 /\ mm_malloc(heap', mem', a + b).ret # NULL]_vars

----------------------------------------------------------------------------
(* C2 *)

(* C2: after any sequence of calls, an alloc(s) with s > 0 returns null or *)
(* a pointer p inside the current Arena with the whole of                  *)
(* [p, p + align(s)) inside the Arena.                                     *)
C2_AllocInsideArena ==
    (op.name = "malloc" /\ op.size > 0 /\ op.ret # NULL) =>
        /\ InArena(op.ret)
        /\ op.ret + ALIGN(op.size) <= heap_start + heap_size

----------------------------------------------------------------------------
(* C3 *)

(* The payload cells of the block whose payload starts at p *)
PayloadCells(m, p) ==
    {a \in DOMAIN m : a >= p /\ a < p + SizeOf(m, Hdr(p)) /\ (a - p) % Cell = 0}

(* C3: a successful alloc returns a block all of whose payloadSize bytes   *)
(* are zero, also when the block was handed out whole and is larger than   *)
(* the aligned request.                                                    *)
C3_ZeroFillWholePayload ==
    (op.name = "malloc" /\ op.ret # NULL) =>
        \A a \in PayloadCells(mem, op.ret) : mem[a] = 0

----------------------------------------------------------------------------
(* C4 *)

(* b is in the index and every other entry of the index is larger *)
UniqueSmallest(b) ==
    /\ b \in Range(heap)
    /\ \A c \in Range(heap) : c # b => SizeOf(mem, c) > SizeOf(mem, b)

(* C4: freed-then-reallocated reuse.  Right after free(p) of a live p, if  *)
(* p's block is the unique smallest free block of the index, alloc(s) with *)
(* s <= that block's payloadSize returns p.                                *)
C4_FreedBlockReused ==
    (op.name = "free" /\ InArena(op.ptr) /\ UniqueSmallest(Hdr(op.ptr))) =>
        \A s \in 1..SizeOf(mem, Hdr(op.ptr)) :
            mm_malloc(heap, mem, s).ret = op.ptr

----------------------------------------------------------------------------
(* C5 *)

(* C5: a block is referenced by the index if and only if its isFree flag   *)
(* is true.                                                                *)
C5_IndexIffFree ==
    \A b \in Blocks \cup Range(heap) : IsFree(mem, b) <=> b \in Range(heap)

----------------------------------------------------------------------------
(* C6 *)

(* C6: the index holds no two references to the same block, and every      *)
(* reference in it points at a block header inside the current Arena.      *)
C6_IndexDistinctInsideArena ==
    /\ \A i, j \in 1..Len(heap) : heap[i] = heap[j] => i = j
    /\ \A b \in Range(heap) : InArena(b)

----------------------------------------------------------------------------
(* C7 *)

(* C7: once initialised, the walk from start with next = header address +  *)
(* headerSize + payloadSize ends exactly at start + totalSize and visits   *)
(* every live block and every block of the index that lies in the Arena.   *)
C7_ArenaTiling ==
    Initialized =>
        /\ WalkStop(mem, heap_start, ArenaEnd) = ArenaEnd
        /\ \A p \in DOMAIN live : InArena(p) => Hdr(p) \in Blocks
        /\ \A b \in Range(heap) : InArena(b) => b \in Blocks

----------------------------------------------------------------------------
(* C8 *)

(* The cells that hold the first n bytes at p *)
CellsOf(p, n) == {p + Cell * k : k \in 0..(((n + 7) \div Cell) - 1)}

(* C8: realloc(p, s) with p live and s larger than p's payloadSize either  *)
(* returns a new non-null pointer whose first oldPayloadSize bytes equal   *)
(* the old payload and whose old block has been freed, or returns null and *)
(* leaves p's block intact: still used, same payloadSize, same bytes.      *)
C8_ReallocGrow ==
    [][\A p \in DOMAIN live :
          (op'.name = "realloc" /\ op'.ptr = p /\ op'.size > SizeOf(mem, Hdr(p))) =>
             LET old == SizeOf(mem, Hdr(p))
                 r   == op'.ret
             IN  \/ /\ r # NULL /\ r # p
                    /\ \A a \in CellsOf(p, old) : mem'[r + (a - p)] = mem[a]
                    /\ IsFree(mem', Hdr(p))
                 \/ /\ r = NULL
                    /\ ~IsFree(mem', Hdr(p))
                    /\ SizeOf(mem', Hdr(p)) = old
                    /\ \A a \in CellsOf(p, old) : mem'[a] = mem[a]]_vars

(* The same statement for the pointers that mm_free accepts, used to tell  *)
(* what the violations of C8 rest on.                                      *)
C8_ReallocGrowInsideArena ==
    [][\A p \in DOMAIN live :
          (op'.name = "realloc" /\ op'.ptr = p /\ op'.size > SizeOf(mem, Hdr(p))
             /\ InArena(p)) =>
             LET old == SizeOf(mem, Hdr(p))
                 r   == op'.ret
             IN  \/ /\ r # NULL /\ r # p
                    /\ \A a \in CellsOf(p, old) : mem'[r + (a - p)] = mem[a]
                    /\ IsFree(mem', Hdr(p))
                 \/ /\ r = NULL
                    /\ ~IsFree(mem', Hdr(p))
                    /\ SizeOf(mem', Hdr(p)) = old
                    /\ \A a \in CellsOf(p, old) : mem'[a] = mem[a]]_vars

----------------------------------------------------------------------------
(* C9 *)

(* C9: realloc(p, s) with p live and 0 < s <= p's payloadSize returns p    *)
(* and changes nothing: no block header, no payload byte and no entry of   *)
(* the index changes.                                                      *)
C9_ReallocInPlace ==
    [][\A p \in DOMAIN live :
          (op'.name = "realloc" /\ op'.ptr = p
             /\ op'.size > 0 /\ op'.size <= SizeOf(mem, Hdr(p))) =>
             /\ op'.ret = p
             /\ mem' = mem
             /\ heap' = heap
             /\ heap_start' = heap_start /\ heap_size' = heap_size]_vars

(* A realloc returned its argument for a block larger than the request     *)
(* while the index held free blocks.                                       *)
C9_Witness ==
    /\ op.name = "realloc" /\ op.ptr # NULL /\ op.ret = op.ptr
    /\ op.size > 0 /\ ALIGN(op.size) < SizeOf(mem, Hdr(op.ptr))
    /\ Len(heap) > 0

----------------------------------------------------------------------------
(* C10 *)

(* C10: from every state realloc(null, s) returns what alloc(s) returns    *)
(* and leaves the state alloc(s) leaves, and realloc(p, 0) with p non-null *)
(* returns null and leaves the state free(p) leaves.                       *)
C10_ReallocDegenerate ==
    [][/\ (op'.name = "realloc" /\ op'.ptr = NULL) =>
             LET a == mm_malloc(heap, mem, op'.size)
             IN  /\ op'.ret = a.ret
                 /\ heap' = a.heap /\ mem' = a.mem
                 /\ heap_start' = heap_start /\ heap_size' = heap_size
       /\ (op'.name = "realloc" /\ op'.ptr # NULL /\ op'.size = 0) =>
             LET f == mm_free(heap, mem, op'.ptr)
             IN  /\ op'.ret = NULL
                 /\ heap' = f.heap /\ mem' = f.mem
                 /\ heap_start' = heap_start /\ heap_size' = heap_size]_vars

(* A realloc(p, 0) gave p's block back to the index while another pointer  *)
(* is still live.                                                          *)
C10_Witness ==
    /\ op.name = "realloc" /\ op.ptr # NULL /\ op.size = 0 /\ op.ret = NULL
    /\ Hdr(op.ptr) \in Range(heap)
    /\ DOMAIN live # {}

----------------------------------------------------------------------------
(* C11 *)

(* ptr is null or lies outside [Arena.start, Arena.start + Arena.totalSize) *)
OutsideArena(ptr) ==
    ptr = NULL \/ ~(heap_start <= ptr /\ ptr < heap_start + heap_size)

(* C11: free(ptr) with ptr null or outside the Arena changes no state:     *)
(* every block header, the index and the Arena descriptor are the same     *)
(* after the call as before it, also when the allocator is uninitialised   *)
(* or cleaned up.                                                          *)
C11_FreeInvalidNoChange ==
    [][(op'.name = "free" /\ OutsideArena(op'.ptr)) =>
          /\ mem' = mem
          /\ heap' = heap
          /\ heap_start' = heap_start /\ heap_size' = heap_size]_vars

(* A free was called on a pointer that an earlier Arena handed out and     *)
(* that lies outside the current one, while the index holds blocks.        *)
C11_Witness ==
    /\ op.name = "free" /\ op.ptr # NULL /\ op.ptr # WildPtr
    /\ Initialized /\ OutsideArena(op.ptr)
    /\ ~IsFree(mem, Hdr(op.ptr))
    /\ Len(heap) > 0

----------------------------------------------------------------------------
(* C12 *)

(* C12: alloc(0) returns null in every state (before init, after init,     *)
(* after cleanup) and changes no state: the index and all block headers    *)
(* are unchanged.                                                          *)
C12_AllocZero ==
    [][(op'.name = "malloc" /\ op'.size = 0) =>
          /\ op'.ret = NULL
          /\ mem' = mem
          /\ heap' = heap
          /\ heap_start' = heap_start /\ heap_size' = heap_size]_vars

(* alloc(0) was called on an initialised allocator whose index holds a     *)
(* free block while a pointer is live.                                     *)
C12_Witness ==
    /\ op.name = "malloc" /\ op.size = 0 /\ op.ret = NULL
    /\ Initialized /\ Len(heap) > 0
    /\ DOMAIN live # {}

----------------------------------------------------------------------------
(* C13 *)

(* The state right after a successful init(N) that left the index holding  *)
(* the initial block of the new Arena and nothing else.                    *)
FreshInit ==
    /\ op.name = "init" /\ Initialized /\ op.size = heap_size
    /\ heap = <<heap_start>>
    /\ SizeOf(mem, heap_start) = heap_size - mm_metadata_size
    /\ live = NoLive

(* C13: exact-capacity scenario.  After a fresh init(N) with               *)
(* N - metadataSize() a positive multiple of 8, alloc(N - metadataSize())  *)
(* returns non-null, the index is then empty, and an immediately following *)
(* alloc(1) returns null.                                                  *)
C13_ExactCapacity ==
    [][(/\ FreshInit
        /\ heap_size - mm_metadata_size > 0
        /\ (heap_size - mm_metadata_size) % 8 = 0
        /\ op'.name = "malloc" /\ op'.size = heap_size - mm_metadata_size) =>
          /\ op'.ret # NULL
          /\ heap' = <<>>
          /\ mm_malloc(heap', mem', 1).ret = NULL]_vars

(* The whole payload of a just-initialised Arena has been handed out in    *)
(* one allocation of exactly N - metadataSize() bytes.                     *)
C13_Witness ==
    /\ op.name = "malloc" /\ Initialized
    /\ op.size = heap_size - mm_metadata_size
    /\ op.ret = heap_start + mm_metadata_size
    /\ heap = <<>>
    /\ DOMAIN live = {op.ret}
    /\ SizeOf(mem, heap_start) = op.size /\ ~IsFree(mem, heap_start)

----------------------------------------------------------------------------
(* C14 *)

(* C14: session reset.  From any reachable state, cleanup() followed by    *)
(* init(N) yields the state of a fresh init(N): when the init goes through *)
(* (N is not too small and the region is granted) the index holds exactly  *)
(* one entry, the block at Arena.start with payloadSize N - headerSize     *)
(* flagged free, and no entry of the earlier session; when it does not,    *)
(* the index is empty as after a fresh failed init.                        *)
C14_SessionReset ==
    [][(op.name = "cleanup" /\ op'.name = "init") =>
          IF op'.size >= MIN_BLOCK_SIZE /\ brk + op'.size <= rlimit
          THEN /\ heap_start' = brk
               /\ heap_size' = op'.size
               /\ heap' = <<heap_start'>>
               /\ SizeOf(mem', heap_start') = op'.size - SizeofBlock
               /\ IsFree(mem', heap_start')
          ELSE /\ heap' = <<>>
               /\ heap_size' = 0]_vars

(* An init has set up a new Arena behind the region of an earlier session  *)
(* whose blocks are still flagged free in memory, and the index holds the  *)
(* new initial block only.                                                 *)
C14_Witness ==
    /\ op.name = "init" /\ Initialized /\ op.size = heap_size
    /\ heap_start > SbrkBase
    /\ heap = <<heap_start>>
    /\ \E b \in DOMAIN mem :
          /\ b < heap_start /\ IsFree(mem, b)
          /\ RightOf(mem, b) < heap_start /\ IsFree(mem, RightOf(mem, b))

----------------------------------------------------------------------------
(* C15 *)

(* No entry of the index array is smaller than its parent *)
HeapOrdered(h, m) ==
    \A k \in 2..Len(h) : SizeOf(m, h[k \div 2]) <= SizeOf(m, h[k])

(* The smallest payloadSize over the entries of a non-empty index *)
MinIndexSize(h, m) ==
    CHOOSE n \in {SizeOf(m, b) : b \in Range(h)} :
        \A b \in Range(h) : n <= SizeOf(m, b)

(* C15: the array of the index keeps the min-heap order, so the block that *)
(* alloc extracts has the minimum payloadSize over all index entries, and  *)
(* alloc(s) with s > 0 fails exactly when the index is empty or its        *)
(* globally smallest free block is smaller than the aligned request.       *)
C15_AllocExtractsMin ==
    /\ HeapOrdered(heap, mem)
    /\ Len(heap) > 0 =>
          SizeOf(mem, heap_extract_min(heap, mem).block) = MinIndexSize(heap, mem)
    /\ \A s \in AllocSizes \ {0} :
          mm_malloc(heap, mem, s).ret = NULL <=>
             (Len(heap) = 0 \/ MinIndexSize(heap, mem) < ALIGN(s))

(* The part of C15 about the extracted block alone, used to tell whether   *)
(* a broken order of the array shows in what alloc extracts.               *)
C15_ExtractedIsMin ==
    Len(heap) > 0 =>
        SizeOf(mem, heap_extract_min(heap, mem).block) = MinIndexSize(heap, mem)

----------------------------------------------------------------------------
(* C16 *)

(* Freeing the live pointer p makes the coalescing pass perform exactly    *)
(* one merge: the block X of p has a free right-hand neighbour N that is   *)
(* in the index, nothing free follows N, and no entry of the index has a   *)
(* free right-hand neighbour or X as its right-hand neighbour.             *)
C16OneMerge(p) ==
    LET x == Hdr(p)
        n == RightOf(mem, x)
    IN  /\ InArena(p)
        /\ n < ArenaEnd /\ IsFree(mem, n) /\ n \in Range(heap)
        /\ RightOf(mem, n) < ArenaEnd => ~IsFree(mem, RightOf(mem, n))
        /\ \A c \in Range(heap) :
              /\ RightOf(mem, c) # x
              /\ RightOf(mem, c) < ArenaEnd => ~IsFree(mem, RightOf(mem, c))

(* C16: when the coalescing pass of free merges a free block X with its    *)
(* free right-hand neighbour N, afterwards X's payloadSize is old X +      *)
(* headerSize + N's payloadSize, N is no longer referenced by the index,   *)
(* and X is still referenced by the index.                                 *)
C16_MergeResult ==
    [][\A p \in DOMAIN live :
          (op'.name = "free" /\ op'.ptr = p /\ C16OneMerge(p)) =>
             LET x == Hdr(p)
                 n == RightOf(mem, x)
             IN  /\ SizeOf(mem', x) = SizeOf(mem, x) + SizeofBlock + SizeOf(mem, n)
                 /\ n \notin Range(heap')
                 /\ x \in Range(heap')]_vars

----------------------------------------------------------------------------
(* C17 *)

(* C17: split rule of alloc.  With r the request rounded up to a multiple  *)
(* of 8 and B the extracted block of payloadSize >= r: if B.payloadSize >= *)
(* r + headerSize + 8 then B is shrunk to exactly r and a new free block   *)
(* of payloadSize old - r - headerSize is created at B's header address +  *)
(* headerSize + r and inserted into the index; otherwise B is returned     *)
(* whole with its payloadSize unchanged and nothing is inserted.           *)
C17_SplitRule ==
    [][(op'.name = "malloc" /\ op'.ret # NULL) =>
          LET B   == Hdr(op'.ret)
              old == SizeOf(mem, B)
              r   == ((op'.size + 7) \div 8) * 8
              new == B + SizeofBlock + r
          IN  /\ B \in Range(heap) /\ old >= r
              /\ IF old >= r + SizeofBlock + 8
                 THEN /\ SizeOf(mem', B) = r
                      /\ SizeOf(mem', new) = old - r - SizeofBlock
                      /\ IsFree(mem', new)
                      /\ Range(heap') = (Range(heap) \ {B}) \cup {new}
                      /\ Len(heap') = Len(heap)
                 ELSE /\ SizeOf(mem', B) = old
                      /\ Range(heap') = Range(heap) \ {B}
                      /\ Len(heap') = Len(heap) - 1]_vars

(* An alloc has split a block: the block handed out has exactly the        *)
(* rounded request as payloadSize and the remainder right behind it is a   *)
(* free block of the index, with another pointer live.                     *)
C17_Witness ==
    /\ op.name = "malloc" /\ op.ret # NULL /\ InArena(op.ret)
    /\ SizeOf(mem, Hdr(op.ret)) = ALIGN(op.size)
    /\ RightOf(mem, Hdr(op.ret)) \in Range(heap)
    /\ IsFree(mem, RightOf(mem, Hdr(op.ret)))
    /\ DOMAIN live # {op.ret}

(* An alloc has handed out a block whole that is larger than the rounded   *)
(* request but too small to split.                                         *)
C17_WitnessWhole ==
    /\ op.name = "malloc" /\ op.ret # NULL
    /\ SizeOf(mem, Hdr(op.ret)) > ALIGN(op.size)

----------------------------------------------------------------------------
(* C18 *)

(* The loop test has just failed: the scan has run over the whole index *)
AtLoopEnd == pc >= 1 /\ pc - 1 >= Len(heap)

(* No index entry has a free right-hand neighbour inside the Arena *)
ScanClean ==
    \A c \in Range(heap) :
        ~(InArena(RightOf(mem, c)) /\ IsFree(mem, RightOf(mem, c)))

(* C18: every call of free terminates: the coalescing pass, restarting its *)
(* scan after each merge, performs finitely many merges and ends with a    *)
(* full scan in which no index entry has a free right-hand neighbour       *)
(* inside the Arena.                                                       *)
C18_FreeTerminates ==
    /\ (pc # 0) ~> (pc = 0)
    /\ [](AtLoopEnd => ScanClean)

(* Each iteration either removes an entry from the index or moves the scan *)
(* forward, which bounds the number of iterations of a call.               *)
C18_LoopMeasure ==
    [][(pc # 0 /\ pc' # 0) =>
          \/ Len(heap') < Len(heap)
          \/ Len(heap') = Len(heap) /\ pc' = pc + 1]_vars

(* The loop taken step by step computes what Coalesce computes at once *)
C18_LoopIsCoalesce ==
    [][/\ (pc = 0 /\ pc' = 1) =>
             Coalesce(heap', mem', 0) = mm_free(heap, mem, op'.ptr)
       /\ (pc # 0 /\ pc' # 0) =>
             Coalesce(heap', mem', pc' - 1) = Coalesce(heap, mem, pc - 1)]_vars

(* A call of free has returned after two merges: the freed block and the   *)
(* free block to its left have both been enlarged and taken out of the     *)
(* index.                                                                  *)
C18_Witness ==
    /\ pc = 0 /\ op.name = "free" /\ InArena(op.ptr)
    /\ IsFree(mem, Hdr(op.ptr)) /\ Hdr(op.ptr) \notin Range(heap)
    /\ RightOf(mem, Hdr(op.ptr)) = ArenaEnd
    /\ \E L \in Blocks :
          /\ L < Hdr(op.ptr) /\ IsFree(mem, L) /\ L \notin Range(heap)
          /\ RightOf(mem, L) > Hdr(op.ptr)

----------------------------------------------------------------------------
(* C19 *)

(* C19: an alloc(s) with s > 0 that returns null leaves the allocator      *)
(* state unchanged: the set of blocks referenced by the index and every    *)
(* block header are the same after the failed call as before it, so the    *)
(* same alloc repeated fails in the same way and a later alloc that could  *)
(* be served before can still be served.                                   *)
C19_FailedAllocNoChange ==
    [][(op'.name = "malloc" /\ op'.size > 0 /\ op'.ret = NULL) =>
          /\ Range(heap') = Range(heap)
          /\ mem' = mem
          /\ \A s \in AllocSizes :
                mm_malloc(heap, mem, s).ret # NULL =>
                    mm_malloc(heap', mem', s).ret # NULL]_vars

----------------------------------------------------------------------------
(* C20 *)

(* init has taken effect exactly once and cleanup has not been called: the *)
(* Arena is the first region and the break lies right behind it.           *)
OneInit ==
    /\ Initialized
    /\ heap_start = SbrkBase
    /\ brk = SbrkBase + heap_size

(* [header address, payload end) of the block with header b *)
Disjoint(b, c) ==
    RightOf(mem, b) <= c \/ RightOf(mem, c) <= b

(* C20: for a client that calls init once and frees or reallocs only live  *)
(* pointers, the ranges [header address, payload end) of any two blocks    *)
(* currently handed out are disjoint, and no block referenced by the index *)
(* overlaps a live block.                                                  *)
C20_NoOverlap ==
    OneInit =>
        /\ \A p, q \in DOMAIN live : p # q => Disjoint(Hdr(p), Hdr(q))
        /\ \A p \in DOMAIN live : \A b \in Range(heap) : Disjoint(Hdr(p), b)

(* After one init, a realloc has moved a block while another pointer is    *)
(* live and the index holds a free block.                                  *)
C20_Witness ==
    /\ OneInit
    /\ op.name = "realloc" /\ op.ptr # NULL /\ op.ret # NULL /\ op.ret # op.ptr
    /\ Cardinality(DOMAIN live) >= 2
    /\ Len(heap) > 0

----------------------------------------------------------------------------
TypeOK ==
    /\ heap_start \in Nat
    /\ heap_size \in Nat
    /\ \A k \in 1..Len(heap) : heap[k] \in DOMAIN mem
    /\ \A p \in DOMAIN live : p - SizeofBlock \in DOMAIN mem

====
